---- MODULE Spec2Model ----
(***************************************************************************)
(* State-machine model of src/app.py: a Flask server with LINE login, a    *)
(* user directory (line_users), a pinned-result store (user_pinned), a     *)
(* message read surface and a search gateway.                              *)
(*                                                                         *)
(* One browser (one cookie jar, the Flask `session`) sends requests; the   *)
(* server handles them concurrently.  Every handler is one atomic action,  *)
(* except /pin, whose existence pre-check and INSERT are two steps with no *)
(* transaction spanning them (app.py 356-362): a /pin request between the  *)
(* two steps is an element of `inflight`.                                  *)
(*                                                                         *)
(* Texts (info, url, query) are sequences of characters so that            *)
(* str.strip() is computed, not assumed.                                   *)
(***************************************************************************)
EXTENDS Naturals, Sequences, FiniteSets, Bags

\* ------------------------------------------------------------ bounds
\* /pin requests that may sit between their pre-check and their INSERT
MaxInFlight == 2

\* ------------------------------------------------------------ input sets
None == "None"

Whitespace == {" "}

\* raw `info` values a client may send
Infos == { <<>>, <<"a">>, <<" ", "a", " ">>, <<"b">> }

\* raw `url` values a client may send
Urls == { <<" ">>, <<"x", " ">> }

\* raw `query` values a client may send
Queries == { <<>>, <<" ", " ">>, <<" ", "q">> }

\* JSON bodies of /pin, /unpin, /check_pinned (a key may be missing)
PinBodies ==
    { [info |-> i, url |-> u] : i \in Infos, u \in Urls } \cup { [info |-> <<"a">>] }

\* JSON bodies of /search
SearchBodies == { [query |-> q] : q \in Queries } \cup { [other |-> <<"q">>] }

\* `code` query parameter of /callback
Codes == { None, "", "code" }

\* what the identity provider answers to the token request
TokenResponses == { [access_token |-> "tok"], [error |-> "invalid_grant"] }

\* what the identity provider answers to the profile request
Profiles ==
    { [userId |-> "U1", displayName |-> "Ann"],
      [userId |-> "U2", displayName |-> "Cy"],
      [displayName |-> "Ann"],
      [userId |-> "U2", displayName |-> ""] }

\* how the storage service behaves for one request: it works, connect()
\* raises, or a statement raises after the connection was opened
DbOutcomes == { "ok", "connect_fails", "execute_fails" }

\* how the embedding service and the vector index behave for one search
SearchOutcomes == { "ok", "embedding_fails", "query_fails" }

\* a collaborator the request never reaches has no outcome, and gives no answer
NotReached == "not reached"
NotAsked == [not_asked |-> TRUE]

\* a text with nothing but whitespace in it
IsBlank(s) == \A i \in 1..Len(s) : s[i] \in Whitespace

\* the text of key k in a JSON body, empty when the key is missing
TextOf(data, k) == IF k \in DOMAIN data THEN data[k] ELSE <<>>

\* /callback requests: the code, and the answers of the collaborators it reaches
CallbackInputs ==
    { [code |-> c, token_response |-> NotAsked, profile |-> NotAsked,
       db |-> NotReached] : c \in { None, "" } }
    \cup
    { [code |-> "code", token_response |-> tr, profile |-> NotAsked,
       db |-> NotReached] : tr \in { r \in TokenResponses : "error" \in DOMAIN r } }
    \cup
    { [code |-> "code", token_response |-> tr, profile |-> p, db |-> NotReached] :
        tr \in { r \in TokenResponses : "access_token" \in DOMAIN r },
        p \in { q \in Profiles : DOMAIN q # { "userId", "displayName" }
                                  \/ q.displayName = "" } }
    \cup
    { [code |-> "code", token_response |-> tr, profile |-> p, db |-> db] :
        tr \in { r \in TokenResponses : "access_token" \in DOMAIN r },
        p \in { q \in Profiles : DOMAIN q = { "userId", "displayName" }
                                  /\ q.displayName # "" },
        db \in DbOutcomes }

\* /pin, /unpin, /check_pinned requests: the body, and the storage outcome when
\* the body gets the request as far as the storage
PinInputs ==
    { [data |-> d, db |-> NotReached] :
        d \in { b \in PinBodies : IsBlank(TextOf(b, "info")) \/ IsBlank(TextOf(b, "url")) } }
    \cup
    { [data |-> d, db |-> db] :
        d \in { b \in PinBodies : ~IsBlank(TextOf(b, "info")) /\ ~IsBlank(TextOf(b, "url")) },
        db \in DbOutcomes }

\* /search requests: the body, and the outcome of the outbound calls when the
\* body gets the request as far as them
SearchInputs ==
    { [data |-> d, outcome |-> NotReached] :
        d \in { b \in SearchBodies : IsBlank(TextOf(b, "query")) } }
    \cup
    { [data |-> d, outcome |-> o] :
        d \in { b \in SearchBodies : ~IsBlank(TextOf(b, "query")) },
        o \in SearchOutcomes }

GroupIds == { None, "G1" }

\* /api/messages requests
MessagesInputs ==
    { [groups_only |-> FALSE, group_id |-> None, db |-> db] :
        db \in { "connect_fails", "execute_fails" } }
    \cup
    { [groups_only |-> g, group_id |-> gid, db |-> "ok"] :
        g \in BOOLEAN, gid \in GroupIds }

InsertOutcomes == { "ok", "execute_fails" }

\* ------------------------------------------------------------ python helpers
\* dict.get(key, default)
Get(d, k, default) == IF k \in DOMAIN d THEN d[k] ELSE default

\* truthiness of a str-or-None value (`if code`, `if line_id and name`)
Truthy(v) == v \notin { None, "" }

RECURSIVE LStrip(_)
LStrip(s) ==
    IF s = <<>> THEN s
    ELSE IF Head(s) \in Whitespace THEN LStrip(Tail(s)) ELSE s

RECURSIVE RStrip(_)
RStrip(s) ==
    IF s = <<>> THEN s
    ELSE IF s[Len(s)] \in Whitespace THEN RStrip(SubSeq(s, 1, Len(s) - 1)) ELSE s

\* str.strip()
Strip(s) == RStrip(LStrip(s))

\* ------------------------------------------------------------ state
VARIABLES
    session,      \* the Flask session (a dict): keys user_lineid, user_name
    line_users,   \* table line_users: bag of [line_id, name]
    user_pinned,  \* table user_pinned: bag of <<lineid, info, url>>
    inflight,     \* /pin requests past the pre-check: bag of <<lineid, info, url>>
    resp,         \* the response of the request that returned last
    pin_history,  \* history: triples successfully pinned and not unpinned since
    login_history \* history: a callback succeeded and no /logout happened since

vars == << session, line_users, user_pinned, inflight, resp, pin_history, login_history >>

EmptySession == [k \in {} |-> None]

NoCalls == << >>

\* a response, with what the request did on the way: `conn` is the state of the
\* request's storage connection when it returns ("none": never opened), `calls`
\* the outbound calls it issued, `data` the rows it returns
Response(ep, status, body, conn, calls, data) ==
    [ep |-> ep, status |-> status, body |-> body, conn |-> conn, calls |-> calls,
     data |-> data]

Init ==
    /\ session = EmptySession
    /\ line_users = EmptyBag
    /\ user_pinned = EmptyBag
    /\ inflight = EmptyBag
    /\ resp = Response("none", 0, "none", "none", NoCalls, {})
    /\ pin_history = {}
    /\ login_history = FALSE

\* ------------------------------------------------------------ storage
\* a storage connection as the request leaves it
ConnNone == "none"
ConnClosed == "closed"
ConnOpen == "open"

\* UNIQUE line_id of line_users: the INSERT raises IntegrityError
UserUniqueViolation(tbl, line_id) ==
    \E r \in BagToSet(tbl) : r.line_id = line_id

\* INSERT INTO line_users (line_id, name) VALUES (?, ?)
InsertUser(tbl, line_id, name) ==
    tbl (+) SetToBag({ [line_id |-> line_id, name |-> name] })

\* faulty variant: save_user without its `except Exception`: a failure leaves the function
SaveUserPropagates(tbl, line_id, name, db) ==
    IF db = "connect_fails"
    THEN [table |-> tbl, conn |-> ConnNone, raised |-> TRUE]
    ELSE IF db = "execute_fails"
    THEN [table |-> tbl, conn |-> ConnClosed, raised |-> TRUE]
    ELSE IF UserUniqueViolation(tbl, line_id)
    THEN [table |-> tbl, conn |-> ConnClosed, raised |-> FALSE]
    ELSE [table |-> InsertUser(tbl, line_id, name), conn |-> ConnClosed,
          raised |-> FALSE]

\* save_user(line_id, name): the table afterwards, the connection as it is left,
\* and whether an exception leaves the function
SaveUser(tbl, line_id, name, db) ==
    IF db = "connect_fails"
    THEN \* connect raises: except Exception, conn is None, nothing to close
         [table |-> tbl, conn |-> ConnNone, raised |-> FALSE]
    ELSE IF db = "execute_fails"
    THEN \* except Exception: rollback; finally: close
         [table |-> tbl, conn |-> ConnClosed, raised |-> FALSE]
    ELSE IF UserUniqueViolation(tbl, line_id)
    THEN \* except IntegrityError: skipped; finally: close
         [table |-> tbl, conn |-> ConnClosed, raised |-> FALSE]
    ELSE [table |-> InsertUser(tbl, line_id, name), conn |-> ConnClosed,
          raised |-> FALSE]

\* SELECT COUNT(*) FROM user_pinned WHERE lineid = ? AND info = ? AND url = ?
CountPinned(tbl, lineid, info, url) == CopiesIn(<<lineid, info, url>>, tbl)

\* faulty variant: user_pinned created without its UNIQUE(lineid, info, url)
NoUniqueConstraint(tbl, lineid, info, url) == FALSE

\* UNIQUE(lineid, info, url) of user_pinned: the INSERT raises IntegrityError
PinnedUniqueViolation(tbl, lineid, info, url) == BagIn(<<lineid, info, url>>, tbl)

\* INSERT INTO user_pinned (lineid, info, url) VALUES (?, ?, ?)
InsertPinned(tbl, lineid, info, url) == tbl (+) SetToBag({ <<lineid, info, url>> })

\* faulty variant: DELETE ... WHERE lineid = ?
DeletePinnedOfUser(tbl, lineid, info, url) ==
    [t \in { r \in BagToSet(tbl) : r[1] # lineid } |-> tbl[t]]

\* faulty variant: DELETE ... WHERE info = ? AND url = ?
DeletePinnedAnyUser(tbl, lineid, info, url) ==
    [t \in { r \in BagToSet(tbl) : ~(r[2] = info /\ r[3] = url) } |-> tbl[t]]

\* DELETE FROM user_pinned WHERE lineid = ? AND info = ? AND url = ?
DeletePinned(tbl, lineid, info, url) ==
    [t \in BagToSet(tbl) \ { <<lineid, info, url>> } |-> tbl[t]]

\* SELECT info, url FROM user_pinned WHERE lineid = ?
SelectPinned(tbl, lineid) ==
    { <<t[2], t[3]>> : t \in { r \in BagToSet(tbl) : r[1] = lineid } }

\* ------------------------------------------------------------ auth guard
RedirectLogin == "redirect:/login-page"
RedirectHome == "redirect:/"

\* 'user_lineid' in session
LoggedIn == "user_lineid" \in DOMAIN session

\* login_required: without a user in the session the wrapped handler does not run
LoginRequired(ep, handler) ==
    IF ~LoggedIn
    THEN /\ resp' = Response(ep, 302, RedirectLogin, ConnNone, NoCalls, {})
         /\ UNCHANGED << session, line_users, user_pinned, inflight, pin_history,
                         login_history >>
    ELSE handler

\* ------------------------------------------------------------ pages and login
\* GET /
Index ==
    /\ resp' = Response("/", 200, "main.html", ConnNone, NoCalls, {})
    /\ UNCHANGED << session, line_users, user_pinned, inflight, pin_history,
                    login_history >>

\* GET /notebook
Notebook ==
    LoginRequired("/notebook",
        /\ resp' = Response("/notebook", 200, "notebook.html", ConnNone, NoCalls, {})
        /\ UNCHANGED << session, line_users, user_pinned, inflight, pin_history,
                        login_history >>)

\* GET /login-page
LoginPage ==
    /\ resp' = IF LoggedIn
               THEN Response("/login-page", 302, RedirectHome, ConnNone, NoCalls, {})
               ELSE Response("/login-page", 200, "login.html", ConnNone, NoCalls, {})
    /\ UNCHANGED << session, line_users, user_pinned, inflight, pin_history,
                    login_history >>

\* GET /login (REDIRECT_URI configured)
Login ==
    /\ resp' = IF LoggedIn
               THEN Response("/login", 302, RedirectHome, ConnNone, NoCalls, {})
               ELSE Response("/login", 302, "redirect:LINE_AUTH_URL", ConnNone,
                             NoCalls, {})
    /\ UNCHANGED << session, line_users, user_pinned, inflight, pin_history,
                    login_history >>

\* faulty variant: the token response is not looked at
AnyTokenResponse(token_response) == TRUE

\* "access_token" in token_response
HasAccessToken(token_response) == "access_token" \in DOMAIN token_response

\* GET /callback?code=...
Callback(code, token_response, profile, db) ==
    LET line_id == Get(profile, "userId", None)
        name == Get(profile, "displayName", None)
        saved == SaveUser(line_users, line_id, name, db)
    IN
    /\ IF ~Truthy(code)
       THEN /\ resp' = Response("/callback", 400, "No code provided", ConnNone,
                                NoCalls, {})
            /\ UNCHANGED << session, line_users >>
       ELSE IF ~HasAccessToken(token_response)
       THEN /\ resp' = Response("/callback", 400, "Failed to get access token",
                                ConnNone, << "token" >>, {})
            /\ UNCHANGED << session, line_users >>
       ELSE IF Truthy(line_id) /\ Truthy(name)
       THEN /\ line_users' = saved.table
            /\ IF saved.raised
               THEN /\ resp' = Response("/callback", 500, "Internal Server Error",
                                        saved.conn, << "token", "profile" >>, {})
                    /\ UNCHANGED session
               ELSE /\ session' = [user_lineid |-> line_id, user_name |-> name]
                    /\ resp' = Response("/callback", 302, RedirectHome, saved.conn,
                                        << "token", "profile" >>, {})
       ELSE /\ resp' = Response("/callback", 400, "Failed to get user profile",
                                ConnNone, << "token", "profile" >>, {})
            /\ UNCHANGED << session, line_users >>
    /\ login_history' = IF resp'.body = RedirectHome THEN TRUE ELSE login_history
    /\ UNCHANGED << user_pinned, inflight, pin_history >>

\* faulty variant: /logout without session.clear()
LogoutKeepsSession ==
    /\ resp' = Response("/logout", 302, RedirectLogin, ConnNone, NoCalls, {})
    /\ login_history' = FALSE
    /\ UNCHANGED << session, line_users, user_pinned, inflight, pin_history >>

\* GET /logout
Logout ==
    /\ session' = EmptySession
    /\ resp' = Response("/logout", 302, RedirectLogin, ConnNone, NoCalls, {})
    /\ login_history' = FALSE
    /\ UNCHANGED << line_users, user_pinned, inflight, pin_history >>

\* GET /api/user
GetUserInfo ==
    LoginRequired("/api/user",
        /\ resp' = Response("/api/user", 200, "line_id,name", ConnNone, NoCalls, {})
        /\ UNCHANGED << session, line_users, user_pinned, inflight, pin_history,
                        login_history >>)

\* ------------------------------------------------------------ messages
\* GET /api/messages?group_id=...&groups_only=...   (linebot_message is only read;
\* its rows come from elsewhere and do not matter to the connection handling)
GetMessages(groups_only, group_id, db) ==
    LoginRequired("/api/messages",
        /\ resp' =
             IF db = "connect_fails"
             THEN Response("/api/messages", 500, "error", ConnNone, NoCalls, {})
             ELSE IF db = "execute_fails"
             THEN \* the SELECT raises: except Exception returns, no close
                  Response("/api/messages", 500, "error", ConnOpen, NoCalls, {})
             ELSE IF groups_only
             THEN Response("/api/messages", 200, "groups", ConnClosed, NoCalls, {})
             ELSE Response("/api/messages", 200, "messages", ConnClosed, NoCalls, {})
        /\ UNCHANGED << session, line_users, user_pinned, inflight, pin_history,
                        login_history >>)

\* ------------------------------------------------------------ search
\* faulty variant: data.get('query', '') without strip()
SearchQueryUnstripped(data) == Get(data, "query", <<>>)

\* data.get('query', '').strip()
SearchQuery(data) == Strip(Get(data, "query", <<>>))

\* POST /search
Search(data, outcome) ==
    LoginRequired("/search",
        LET query == SearchQuery(data) IN
        /\ resp' =
             IF query = <<>>
             THEN Response("/search", 400, "empty query", ConnNone, NoCalls, {})
             ELSE IF outcome = "embedding_fails"
             THEN Response("/search", 500, "error", ConnNone, << "embedding" >>, {})
             ELSE IF outcome = "query_fails"
             THEN Response("/search", 500, "error", ConnNone,
                           << "embedding", "index_query" >>, {})
             ELSE Response("/search", 200, "results", ConnNone,
                           << "embedding", "index_query" >>, {})
        /\ UNCHANGED << session, line_users, user_pinned, inflight, pin_history,
                        login_history >>)

\* ------------------------------------------------------------ pinned results
AlreadyPinned == "already pinned"
PinSaved == "pinned"
Unpinned == "unpinned"
MissingData == "missing data"

\* data.get('info', '').strip()
InfoOf(data) == Strip(Get(data, "info", <<>>))

\* data.get('url', '').strip()
UrlOf(data) == Strip(Get(data, "url", <<>>))

\* POST /pin, up to and including the existence pre-check
PinPreCheck(data, db) ==
    LET info == InfoOf(data)
        url == UrlOf(data)
        lineid == session["user_lineid"]
    IN
    IF info = <<>> \/ url = <<>>
    THEN /\ resp' = Response("/pin", 400, MissingData, ConnNone, NoCalls, {})
         /\ UNCHANGED inflight
    ELSE IF db = "connect_fails"
    THEN /\ resp' = Response("/pin", 500, "error", ConnNone, NoCalls, {})
         /\ UNCHANGED inflight
    ELSE IF db = "execute_fails"
    THEN /\ resp' = Response("/pin", 500, "error", ConnOpen, NoCalls, {})
         /\ UNCHANGED inflight
    ELSE IF CountPinned(user_pinned, lineid, info, url) > 0
    THEN /\ resp' = Response("/pin", 200, AlreadyPinned, ConnClosed, NoCalls, {})
         /\ UNCHANGED inflight
    ELSE \* the request goes on to its INSERT
         /\ BagCardinality(inflight) < MaxInFlight
         /\ inflight' = inflight (+) SetToBag({ <<lineid, info, url>> })
         /\ UNCHANGED resp

PinStart(data, db) ==
    LoginRequired("/pin",
        /\ PinPreCheck(data, db)
        /\ UNCHANGED << session, line_users, user_pinned, pin_history,
                        login_history >>)

\* faulty variant: no except clause for IntegrityError, the duplicate is a 500
PinIntegrityErrorAs500 == Response("/pin", 500, "error", ConnOpen, NoCalls, {})

\* except sqlitecloud.IntegrityError of /pin: the duplicate is answered like the
\* pre-check's hit; the handler returns without closing the connection
PinIntegrityError == Response("/pin", 200, AlreadyPinned, ConnOpen, NoCalls, {})

\* POST /pin, from the INSERT to the response
PinInsert(t, db) ==
    /\ BagIn(t, inflight)
    /\ inflight' = inflight (-) SetToBag({ t })
    /\ IF db = "execute_fails"
       THEN \* except Exception: no close
            /\ resp' = Response("/pin", 500, "error", ConnOpen, NoCalls, {})
            /\ UNCHANGED user_pinned
       ELSE IF PinnedUniqueViolation(user_pinned, t[1], t[2], t[3])
       THEN /\ resp' = PinIntegrityError
            /\ UNCHANGED user_pinned
       ELSE /\ user_pinned' = InsertPinned(user_pinned, t[1], t[2], t[3])
            /\ resp' = Response("/pin", 200, PinSaved, ConnClosed, NoCalls, {})
    /\ pin_history' = IF resp'.body = PinSaved THEN pin_history \cup { t }
                      ELSE pin_history
    /\ UNCHANGED << session, line_users, login_history >>

\* POST /unpin
UnpinResult(data, db) ==
    LoginRequired("/unpin",
        LET info == InfoOf(data)
            url == UrlOf(data)
            lineid == session["user_lineid"]
        IN
        /\ IF info = <<>> \/ url = <<>>
           THEN /\ resp' = Response("/unpin", 400, MissingData, ConnNone, NoCalls, {})
                /\ UNCHANGED user_pinned
           ELSE IF db = "connect_fails"
           THEN /\ resp' = Response("/unpin", 500, "error", ConnNone, NoCalls, {})
                /\ UNCHANGED user_pinned
           ELSE IF db = "execute_fails"
           THEN /\ resp' = Response("/unpin", 500, "error", ConnOpen, NoCalls, {})
                /\ UNCHANGED user_pinned
           ELSE /\ user_pinned' = DeletePinned(user_pinned, lineid, info, url)
                /\ resp' = Response("/unpin", 200, Unpinned, ConnClosed, NoCalls, {})
        /\ pin_history' = IF resp'.body = Unpinned
                          THEN pin_history \ { <<lineid, info, url>> }
                          ELSE pin_history
        /\ UNCHANGED << session, line_users, inflight, login_history >>)

\* GET /get_pinned
GetPinned(db) ==
    LoginRequired("/get_pinned",
        LET lineid == session["user_lineid"] IN
        /\ resp' =
             IF db = "connect_fails"
             THEN Response("/get_pinned", 500, "error", ConnNone, NoCalls, {})
             ELSE IF db = "execute_fails"
             THEN Response("/get_pinned", 500, "error", ConnOpen, NoCalls, {})
             ELSE Response("/get_pinned", 200, "pinned list", ConnClosed, NoCalls,
                           SelectPinned(user_pinned, lineid))
        /\ UNCHANGED << session, line_users, user_pinned, inflight, pin_history,
                        login_history >>)

\* POST /check_pinned
CheckPinned(data, db) ==
    LoginRequired("/check_pinned",
        LET info == InfoOf(data)
            url == UrlOf(data)
            lineid == session["user_lineid"]
        IN
        /\ resp' =
             IF info = <<>> \/ url = <<>>
             THEN Response("/check_pinned", 400, MissingData, ConnNone, NoCalls, {})
             ELSE IF db = "connect_fails"
             THEN Response("/check_pinned", 500, "error", ConnNone, NoCalls, {})
             ELSE IF db = "execute_fails"
             THEN Response("/check_pinned", 500, "error", ConnOpen, NoCalls, {})
             ELSE IF CountPinned(user_pinned, lineid, info, url) > 0
             THEN Response("/check_pinned", 200, "exists: true", ConnClosed, NoCalls, {})
             ELSE Response("/check_pinned", 200, "exists: false", ConnClosed, NoCalls, {})
        /\ UNCHANGED << session, line_users, user_pinned, inflight, pin_history,
                        login_history >>)

\* ------------------------------------------------------------ specification
Next ==
    \/ Index
    \/ Notebook
    \/ LoginPage
    \/ Login
    \/ \E in \in CallbackInputs :
          Callback(in.code, in.token_response, in.profile, in.db)
    \/ Logout
    \/ GetUserInfo
    \/ \E in \in MessagesInputs : GetMessages(in.groups_only, in.group_id, in.db)
    \/ \E in \in SearchInputs : Search(in.data, in.outcome)
    \/ \E in \in PinInputs : PinStart(in.data, in.db)
    \/ \E t \in BagToSet(inflight), db \in InsertOutcomes : PinInsert(t, db)
    \/ \E in \in PinInputs : UnpinResult(in.data, in.db)
    \/ \E db \in DbOutcomes : GetPinned(db)
    \/ \E in \in PinInputs : CheckPinned(in.data, in.db)

Spec == Init /\ [][Next]_vars

\* ------------------------------------------------------------ properties
\* a text without its leading and trailing whitespace, said without recursion
Trim(s) ==
    LET keep == { i \in 1..Len(s) : s[i] \notin Whitespace } IN
    IF keep = {} THEN << >>
    ELSE SubSeq(s, CHOOSE i \in keep : \A j \in keep : i <= j,
                   CHOOSE i \in keep : \A j \in keep : j <= i)

\* the bodies of /pin, /unpin, /check_pinned with the info and url each means
PinRequests ==
    { [data |-> d, info |-> Trim(TextOf(d, "info")), url |-> Trim(TextOf(d, "url"))] :
        d \in PinBodies }

\* those that name a triple: neither info nor url is empty or whitespace only
TripleRequests == { r \in PinRequests : r.info # << >> /\ r.url # << >> }

\* the (user, info, url) triple a request means for the user of the session
TripleOf(r) == << session["user_lineid"], r.info, r.url >>

\* the rows a table holds for a triple
Rows(tbl, t) == IF t \in DOMAIN tbl THEN tbl[t] ELSE 0

AtMostOneRowPerTriple(tbl) == \A t \in DOMAIN tbl : tbl[t] <= 1

\* (In the step formulas below the quantifier ranges over requests only when the
\* step returns a response of the endpoint in question: no other step can be a
\* step of that handler.)

\* C1: after any sequence of /pin and /unpin requests user_pinned holds at most
\* one row per (user, info, url); a /pin of a triple that is in the store (the
\* storage working) answers "already pinned" with 200 and adds no row.
C1_OneRowPerTriple ==
    /\ AtMostOneRowPerTriple(user_pinned)
    /\ [][ /\ AtMostOneRowPerTriple(user_pinned')
           /\ \A r \in IF LoggedIn /\ resp'.ep = "/pin" THEN TripleRequests ELSE {} :
                ( /\ Rows(user_pinned, TripleOf(r)) > 0
                  /\ PinStart(r.data, "ok") )
                => ( /\ resp'.ep = "/pin"
                     /\ resp'.status = 200
                     /\ resp'.body = AlreadyPinned
                     /\ user_pinned' = user_pinned
                     /\ inflight' = inflight ) ]_vars

\* C1 witness: a /pin was answered "already pinned" by the pre-check and the store
\* holds one row for a triple.
C1_Witness ==
    /\ resp = Response("/pin", 200, AlreadyPinned, ConnClosed, NoCalls, {})
    /\ \E t \in DOMAIN user_pinned : user_pinned[t] = 1

\* C2: of two /pin requests for one absent triple that both passed the pre-check,
\* the INSERT that finds no row succeeds with the success message, and the INSERT
\* that finds the row is answered "already pinned" with 200 like the pre-check's
\* hit, never 500; the store holds exactly one row for the triple afterwards.
C2_RaceResolvedByConstraint ==
    [][ \A t \in IF resp'.ep = "/pin" THEN DOMAIN inflight ELSE {} :
          PinInsert(t, "ok")
          => /\ resp'.ep = "/pin"
             /\ resp'.status = 200
             /\ resp'.body = IF Rows(user_pinned, t) > 0 THEN AlreadyPinned ELSE PinSaved
             /\ Rows(user_pinned', t) = 1
             /\ \A u \in (DOMAIN user_pinned \cup DOMAIN user_pinned') \ { t } :
                  Rows(user_pinned', u) = Rows(user_pinned, u) ]_vars

\* C2 witness: the INSERT of a racing /pin hit the uniqueness constraint (the only
\* path that answers "already pinned" with the connection left open) and the
\* store holds one row.
C2_Witness ==
    /\ resp = PinIntegrityError
    /\ \E t \in DOMAIN user_pinned : user_pinned[t] = 1

\* C3: /check_pinned (the storage working) answers exists = true exactly when the
\* user has successfully pinned that triple and not unpinned it since; pin_history
\* changes for a triple only with a /pin or /unpin of that user and that
\* (info, url), so no other request changes the answer.
C3_CheckPinnedIffPinned ==
    [][ \A r \in IF LoggedIn /\ resp'.ep = "/check_pinned" THEN TripleRequests ELSE {} :
          CheckPinned(r.data, "ok")
          => /\ resp'.ep = "/check_pinned"
             /\ resp'.status = 200
             /\ (resp'.body = "exists: true") <=> (TripleOf(r) \in pin_history)
             /\ (resp'.body = "exists: false") <=> (TripleOf(r) \notin pin_history) ]_vars

\* C3 witness: /check_pinned answered true to a user with a standing pin while
\* another user has a standing pin too.
C3_Witness ==
    /\ resp = Response("/check_pinned", 200, "exists: true", ConnClosed, NoCalls, {})
    /\ LoggedIn
    /\ \E t \in pin_history : t[1] = session["user_lineid"]
    /\ \E t \in pin_history : t[1] # session["user_lineid"]

\* C4: a /unpin of a triple that is not in the store (the storage working) gets
\* the same 200 response as a /unpin of a stored triple and leaves every row
\* unchanged; after any /unpin the store is the store without that triple, so a
\* second /unpin changes nothing.
C4_UnpinIdempotent ==
    [][ \A r \in IF LoggedIn /\ resp'.ep = "/unpin" THEN TripleRequests ELSE {} :
          UnpinResult(r.data, "ok")
          => /\ resp' = Response("/unpin", 200, Unpinned, ConnClosed, NoCalls, {})
             /\ Rows(user_pinned', TripleOf(r)) = 0
             /\ \A u \in (DOMAIN user_pinned \cup DOMAIN user_pinned') \ { TripleOf(r) } :
                  Rows(user_pinned', u) = Rows(user_pinned, u)
             /\ Rows(user_pinned, TripleOf(r)) = 0 => user_pinned' = user_pinned ]_vars

\* C4 witness: a /unpin was answered 200 while the store holds rows, none of them
\* for a triple of the user of the session.
C4_Witness ==
    /\ resp = Response("/unpin", 200, Unpinned, ConnClosed, NoCalls, {})
    /\ LoggedIn
    /\ user_pinned # EmptyBag
    /\ \A t \in DOMAIN user_pinned : t[1] # session["user_lineid"]

\* the /callback requests whose code the identity provider rejects
RejectedCallbacks ==
    { in \in CallbackInputs : Truthy(in.code) /\ "error" \in DOMAIN in.token_response }

\* C5: a /callback whose code the identity provider rejects (no access_token in
\* the token response) returns 400, leaves the session and line_users as they
\* were, and opens no storage connection.
C5_RejectedCodeChangesNothing ==
    [][ \A in \in IF resp'.ep = "/callback" THEN RejectedCallbacks ELSE {} :
          Callback(in.code, in.token_response, in.profile, in.db)
          => /\ resp'.ep = "/callback"
             /\ resp'.status = 400
             /\ resp'.conn = ConnNone
             /\ resp'.calls = << "token" >>
             /\ session' = session
             /\ line_users' = line_users ]_vars

\* C5 witness: a rejected code was answered while a user is logged in and the
\* directory holds a row.
C5_Witness ==
    /\ resp = Response("/callback", 400, "Failed to get access token", ConnNone,
                       << "token" >>, {})
    /\ LoggedIn
    /\ line_users # EmptyBag

\* C6: no request returns with its storage connection still open.
C6_EveryConnectionClosed == resp.conn # ConnOpen

DataEndpoints ==
    { "/api/user", "/api/messages", "/search", "/pin", "/unpin", "/get_pinned",
      "/check_pinned" }

\* C7: a request without a user in the session to a protected data endpoint is
\* answered with an "unauthenticated" error status, not with a redirect to the
\* login page (a protected page route is redirected).
C7_DataEndpointsNotRedirected ==
    ~( resp.ep \in DataEndpoints /\ resp.status = 302 /\ resp.body = RedirectLogin )

\* the /search requests whose query is empty or whitespace only
BlankSearches == { in \in SearchInputs : IsBlank(TextOf(in.data, "query")) }

\* C8: a /search (of a logged-in user) whose query is empty or whitespace only
\* returns 400 and issues no outbound call, neither the embedding request nor
\* the index query.
C8_BlankQueryNoOutboundCall ==
    [][ \A in \in IF resp'.ep = "/search" THEN BlankSearches ELSE {} :
          Search(in.data, in.outcome)
          => /\ resp'.ep = "/search"
             /\ resp'.calls = NoCalls
             /\ LoggedIn => resp'.status = 400 ]_vars

\* C8 witness: a logged-in user's blank /search was answered 400.
C8_Witness ==
    /\ resp = Response("/search", 400, "empty query", ConnNone, NoCalls, {})
    /\ LoggedIn

\* the /callback requests with an accepted code and a complete profile
AcceptedCallbacks == { in \in CallbackInputs : in.db # NotReached }

ProtectedRequest ==
    \/ Notebook
    \/ GetUserInfo
    \/ \E in \in MessagesInputs : GetMessages(in.groups_only, in.group_id, in.db)
    \/ \E in \in SearchInputs : Search(in.data, in.outcome)
    \/ \E in \in PinInputs : PinStart(in.data, in.db)
    \/ \E in \in PinInputs : UnpinResult(in.data, in.db)
    \/ \E db \in DbOutcomes : GetPinned(db)
    \/ \E in \in PinInputs : CheckPinned(in.data, in.db)

\* C10: the session holds a user exactly when a callback has succeeded and no
\* /logout happened since; without a user every request to a protected endpoint
\* stops in the guard: redirect to the login page, no store read or write, no
\* outbound call.
C10_SessionFollowsLoginAndLogout ==
    /\ LoggedIn <=> login_history
    /\ [][ /\ LoggedIn' <=> login_history'
           /\ ( ~LoggedIn /\ ProtectedRequest )
              => /\ resp'.status = 302
                 /\ resp'.body = RedirectLogin
                 /\ resp'.conn = ConnNone
                 /\ resp'.calls = NoCalls
                 /\ UNCHANGED << session, line_users, user_pinned, inflight >> ]_vars

\* C10 witness: after a login and a /logout, with rows pinned, a protected
\* endpoint was stopped by the guard.
C10_Witness ==
    /\ resp = Response("/get_pinned", 302, RedirectLogin, ConnNone, NoCalls, {})
    /\ ~LoggedIn
    /\ ~login_history
    /\ user_pinned # EmptyBag

====
